---- MODULE Spec2Model ----
(***************************************************************************)
(* rayon-par-bridge: par_bridge(bound, iter, f) (src/src/lib.rs).          *)
(*                                                                         *)
(* One call of par_bridge is modelled as three kinds of thread:            *)
(*   - the calling thread: runs std::thread::scope, creates the            *)
(*     sync_channel, spawns the bridging thread, runs the consumer         *)
(*     function f on RayonIntoIter, then waits at the scope's join;        *)
(*   - the bridging (scoped) thread: owns the SyncSender and drives        *)
(*     iter.into_par_iter().try_for_each(|x| send.send(x).ok());           *)
(*   - the workers of the rayon registry that serves the drive: each takes *)
(*     an item, runs the per-item work, and calls send.send(x).            *)
(* The calling thread is not a worker of the global registry (it is an     *)
(* ordinary thread, or the worker of a pool of its own, as in the test).   *)
(***************************************************************************)
EXTENDS Integers, Sequences, FiniteSets

\* ---- bounds of the model ----
MaxBound == 2      \* bound ranges over 0..MaxBound
MaxN == 2          \* the source holds 0..MaxN items
MaxWorkers == 2    \* the global registry has 1..MaxWorkers workers

\* The pool built in tests::single_thread has one worker thread.
LocalThreads == 1

\* A consumer plan of All (no pull count) pulls until the adapter returns None.
All == MaxN + 1

NoValue == <<-1>>

VARIABLES
    bound,          \* par_bridge's `bound` argument
    n,              \* number of items of the parallel source
    nWorkers,       \* worker threads of the global registry
    callerPool,     \* "none": plain thread; "local": worker of an installed pool
    want,           \* consumer plan: number of pulls, or All
    fEnd,           \* consumer plan: "drop" | "keep" (R holds the adapter) | "panic"
    panicSet,       \* items whose per-item work panics
    callerPc,       \* position of the calling thread
    prodPc,         \* position of the bridging thread
    unclaimed,      \* items the engine has not dispatched yet
    wkSt,           \* per worker: "idle" | "computing" | "sending"
    wkItem,         \* per worker: the item it holds (0 when idle)
    full,           \* try_for_each's early-stop flag
    itemPanicked,   \* a per-item panic was captured by the engine
    buf,            \* the channel's buffer
    recvLive,       \* the Receiver has not been dropped
    senderLive,     \* the SyncSender has not been dropped
    got,            \* items the adapter has yielded, in order
    pulls,          \* number of completed calls of next()
    sawEOS,         \* next() has returned None
    sentOk,         \* items whose send returned Ok, in order
    fResult,        \* what the consumer function returned
    fPanicked,      \* the consumer function panicked
    threadPanicked, \* the bridging thread ended by a panic
    retVal,         \* what par_bridge returned
    panicSrc        \* which panic left par_bridge: "none" | "consumer" | "scoped thread"

vars == <<bound, n, nWorkers, callerPool, want, fEnd, panicSet, callerPc, prodPc,
          unclaimed, wkSt, wkItem, full, itemPanicked, buf, recvLive, senderLive,
          got, pulls, sawEOS, sentOk, fResult, fPanicked, threadPanicked, retVal,
          panicSrc>>

params == <<bound, n, nWorkers, callerPool, want, fEnd, panicSet>>

\* ---- the source and the per-item work (doc example: (0..n) mapped by *2) ----
Work(x) == x * 2

Items == 1..n

ItemValue(i) == Work(i - 1)

\* ---- helpers on sequences ----
Count(s, v) == Cardinality({k \in 1..Len(s) : s[k] = v})

Range(s) == {s[k] : k \in 1..Len(s)}

\* ---- which registry serves the drive ----
\* The bridging thread is a fresh scoped std thread, a worker of no pool, so
\* try_for_each is injected into the global registry whatever pool the caller
\* is a worker of.
DrivePoolOfCaller(cp) == IF cp = "none" THEN "global" ELSE cp

DrivePool(cp) == "global"

\* Workers able to run the drive's jobs: those of the global registry, or, in
\* the caller's own pool, its threads other than the (blocked) calling thread.
FreeWorkers == IF DrivePool(callerPool) = "global" THEN 1..nWorkers
               ELSE 1..(LocalThreads - 1)

\* ---- sync_channel(bound) ----
HasSpaceOffByOne(b, q) == Len(q) <= b

HasSpace(b, q) == Len(q) < b

\* recv() reports disconnection only once the buffer is empty.
AtEndIgnoringBuffer(q, live) == ~live

AtEnd(q, live) == q = <<>> /\ ~live

PopKeepsHead(q) == q

Pop(q) == Tail(q)

\* send.send(x).ok(): Err(SendError) becomes None, which stops try_for_each.
SendOutcomeUnwrap(ok) == IF ok THEN "continue" ELSE "panic"

SendOutcome(ok) == IF ok THEN "continue" ELSE "stop"

\* ---- std::thread::scope ----
\* The scope returns only after every spawned thread has finished.
JoinReadyNoWait(pc) == TRUE

JoinReady(pc) == pc = "done"

ScopeOutcomeIgnoringThread(fp, tp) == IF fp THEN "consumer" ELSE "none"

ScopeOutcomeThreadFirst(fp, tp) == IF tp THEN "scoped thread"
                                   ELSE IF fp THEN "consumer" ELSE "none"

\* f's panic is resumed; otherwise a panicked scoped thread makes scope panic.
ScopeOutcome(fp, tp) == IF fp THEN "consumer"
                        ELSE IF tp THEN "scoped thread" ELSE "none"

\* The scope is left only from its end, after f has returned or panicked.
AtJoinOrInConsumer(pc) == pc \in {"between", "join"}

AtJoin(pc) == pc = "join"

\* try_for_each takes a further item only while its stop flag is unset.
MayDispatchAlways(stop) == TRUE

MayDispatch(stop) == ~stop

\* The scoped closure owns `send` (move): it is dropped when the closure ends,
\* by return or by unwinding.
SenderDroppedUnlessPanic(panicked) == ~panicked

SenderDropped(panicked) == TRUE

\* Dropping the adapter drops the Receiver, unless f's result holds it.
DropsAdapterNever(end) == FALSE

DropsAdapter(end) == end # "keep"

TypeOK ==
    /\ bound \in 0..MaxBound
    /\ n \in 0..MaxN
    /\ nWorkers \in 1..MaxWorkers
    /\ callerPool \in {"none", "local"}
    /\ want \in (0..MaxN) \cup {All}
    /\ fEnd \in {"drop", "keep", "panic"}
    /\ panicSet \subseteq Items
    /\ callerPc \in {"start", "between", "pulling", "join", "returned", "panicked"}
    /\ prodPc \in {"unspawned", "spawned", "driving", "done"}
    /\ unclaimed \subseteq Items
    /\ wkSt \in [1..nWorkers -> {"idle", "computing", "sending"}]
    /\ wkItem \in [1..nWorkers -> 0..n]
    /\ full \in BOOLEAN /\ itemPanicked \in BOOLEAN
    /\ recvLive \in BOOLEAN /\ senderLive \in BOOLEAN
    /\ sawEOS \in BOOLEAN /\ fPanicked \in BOOLEAN /\ threadPanicked \in BOOLEAN
    /\ pulls \in 0..(MaxN + 1)
    /\ panicSrc \in {"none", "consumer", "scoped thread"}

Init ==
    /\ bound \in 0..MaxBound
    /\ n \in 0..MaxN
    /\ nWorkers \in 1..MaxWorkers
    /\ callerPool \in {"none", "local"}
    /\ want \in (0..MaxN) \cup {All}
    /\ fEnd \in {"drop", "keep", "panic"}
    /\ panicSet \in SUBSET (1..n)
    /\ callerPc = "start"
    /\ prodPc = "unspawned"
    /\ unclaimed = 1..n
    /\ wkSt = [w \in 1..nWorkers |-> "idle"]
    /\ wkItem = [w \in 1..nWorkers |-> 0]
    /\ full = FALSE
    /\ itemPanicked = FALSE
    /\ buf = <<>>
    /\ recvLive = TRUE
    /\ senderLive = TRUE
    /\ got = <<>>
    /\ pulls = 0
    /\ sawEOS = FALSE
    /\ sentOk = <<>>
    /\ fResult = NoValue
    /\ fPanicked = FALSE
    /\ threadPanicked = FALSE
    /\ retVal = NoValue
    /\ panicSrc = "none"

\* ---- the calling thread ----

\* lib.rs 50-53: enter the scope, create the channel, spawn the bridging
\* thread, call f with the adapter.
Start ==
    /\ callerPc = "start"
    /\ callerPc' = "between"
    /\ prodPc' = "spawned"
    /\ UNCHANGED <<params, unclaimed, wkSt, wkItem, full, itemPanicked, buf, recvLive,
                   senderLive, got, pulls, sawEOS, sentOk, fResult, fPanicked,
                   threadPanicked, retVal, panicSrc>>

\* The consumer's plan: it pulls `want` times, or until None when want = All.
WantsMore == IF want = All THEN ~sawEOS ELSE pulls < want

\* f calls RayonIntoIter::next, which calls the receiver's next (lib.rs 63-65).
ConsumerPull ==
    /\ callerPc = "between"
    /\ WantsMore
    /\ callerPc' = "pulling"
    /\ UNCHANGED <<params, prodPc, unclaimed, wkSt, wkItem, full, itemPanicked, buf,
                   recvLive, senderLive, got, pulls, sawEOS, sentOk, fResult, fPanicked,
                   threadPanicked, retVal, panicSrc>>

\* next() returns Some(x): the oldest buffered item.
RecvItem ==
    /\ callerPc = "pulling"
    /\ buf # <<>>
    /\ got' = Append(got, Head(buf))
    /\ buf' = Pop(buf)
    /\ pulls' = pulls + 1
    /\ callerPc' = "between"
    /\ UNCHANGED <<params, prodPc, unclaimed, wkSt, wkItem, full, itemPanicked,
                   recvLive, senderLive, sawEOS, sentOk, fResult, fPanicked,
                   threadPanicked, retVal, panicSrc>>

\* next() returns None: the sender is gone and nothing is buffered.
RecvEnd ==
    /\ callerPc = "pulling"
    /\ AtEnd(buf, senderLive)
    /\ sawEOS' = TRUE
    /\ pulls' = pulls + 1
    /\ callerPc' = "between"
    /\ UNCHANGED <<params, prodPc, unclaimed, wkSt, wkItem, full, itemPanicked, buf,
                   recvLive, senderLive, got, sentOk, fResult, fPanicked,
                   threadPanicked, retVal, panicSrc>>

\* f returns R. The adapter it was given by value is dropped with f's frame
\* unless R holds it; dropping the Receiver discards what is buffered.
ConsumerReturn ==
    /\ callerPc = "between"
    /\ ~WantsMore
    /\ fEnd # "panic"
    /\ fResult' = got
    /\ recvLive' = ~DropsAdapter(fEnd)
    /\ buf' = IF DropsAdapter(fEnd) THEN <<>> ELSE buf
    /\ callerPc' = "join"
    /\ UNCHANGED <<params, prodPc, unclaimed, wkSt, wkItem, full, itemPanicked,
                   senderLive, got, pulls, sawEOS, sentOk, fPanicked, threadPanicked,
                   retVal, panicSrc>>

\* f panics: the unwind drops the adapter, and scope catches the panic.
ConsumerPanic ==
    /\ callerPc = "between"
    /\ ~WantsMore
    /\ fEnd = "panic"
    /\ fPanicked' = TRUE
    /\ recvLive' = ~DropsAdapter("panic")
    /\ buf' = IF DropsAdapter("panic") THEN <<>> ELSE buf
    /\ callerPc' = "join"
    /\ UNCHANGED <<params, prodPc, unclaimed, wkSt, wkItem, full, itemPanicked,
                   senderLive, got, pulls, sawEOS, sentOk, fResult, threadPanicked,
                   retVal, panicSrc>>

\* The end of std::thread::scope: wait for the scoped thread, then resume f's
\* panic, or panic because a scoped thread panicked, or return f's result.
ScopeExit ==
    /\ AtJoin(callerPc)
    /\ JoinReady(prodPc)
    /\ panicSrc' = ScopeOutcome(fPanicked, threadPanicked)
    /\ callerPc' = IF panicSrc' = "none" THEN "returned" ELSE "panicked"
    /\ retVal' = IF panicSrc' = "none" THEN fResult ELSE NoValue
    /\ UNCHANGED <<params, prodPc, unclaimed, wkSt, wkItem, full, itemPanicked, buf,
                   recvLive, senderLive, got, pulls, sawEOS, sentOk, fResult, fPanicked,
                   threadPanicked>>

\* ---- the bridging thread ----

\* The scoped thread starts and calls try_for_each, which injects the drive
\* into the registry and blocks until it is complete.
ProducerBegin ==
    /\ prodPc = "spawned"
    /\ prodPc' = "driving"
    /\ UNCHANGED <<params, callerPc, unclaimed, wkSt, wkItem, full, itemPanicked, buf,
                   recvLive, senderLive, got, pulls, sawEOS, sentOk, fResult, fPanicked,
                   threadPanicked, retVal, panicSrc>>

\* The drive is complete when no worker holds an item and no item remains to
\* be dispatched (the rest is skipped once the stop flag is set, and may be
\* skipped by the unwinding of a panicked job).
DriveComplete ==
    /\ \A w \in 1..nWorkers : wkSt[w] = "idle"
    /\ unclaimed = {} \/ full \/ itemPanicked

\* try_for_each returns (or resumes the captured panic); the closure ends and
\* drops the SyncSender.
ProducerEnd ==
    /\ prodPc = "driving"
    /\ DriveComplete
    /\ prodPc' = "done"
    /\ senderLive' = ~SenderDropped(itemPanicked)
    /\ threadPanicked' = itemPanicked
    /\ UNCHANGED <<params, callerPc, unclaimed, wkSt, wkItem, full, itemPanicked, buf,
                   recvLive, got, pulls, sawEOS, sentOk, fResult, fPanicked, retVal,
                   panicSrc>>

\* ---- the engine's workers ----

\* A worker takes the next item, unless the stop flag is set.
WorkerClaim(w) ==
    /\ prodPc = "driving"
    /\ w \in FreeWorkers
    /\ wkSt[w] = "idle"
    /\ MayDispatch(full)
    /\ \E i \in unclaimed :
        /\ unclaimed' = unclaimed \ {i}
        /\ wkItem' = [wkItem EXCEPT ![w] = i]
    /\ wkSt' = [wkSt EXCEPT ![w] = "computing"]
    /\ UNCHANGED <<params, callerPc, prodPc, full, itemPanicked, buf, recvLive,
                   senderLive, got, pulls, sawEOS, sentOk, fResult, fPanicked,
                   threadPanicked, retVal, panicSrc>>

\* The per-item work runs: it yields the item's value, or panics.
WorkerCompute(w) ==
    /\ wkSt[w] = "computing"
    /\ IF wkItem[w] \in panicSet
       THEN /\ itemPanicked' = TRUE
            /\ wkSt' = [wkSt EXCEPT ![w] = "idle"]
            /\ wkItem' = [wkItem EXCEPT ![w] = 0]
       ELSE /\ wkSt' = [wkSt EXCEPT ![w] = "sending"]
            /\ UNCHANGED <<itemPanicked, wkItem>>
    /\ UNCHANGED <<params, callerPc, prodPc, unclaimed, full, buf, recvLive,
                   senderLive, got, pulls, sawEOS, sentOk, fResult, fPanicked,
                   threadPanicked, retVal, panicSrc>>

\* What the closure's result does to the worker and the drive.
AfterSend(w, outcome) ==
    /\ wkSt' = [wkSt EXCEPT ![w] = "idle"]
    /\ wkItem' = [wkItem EXCEPT ![w] = 0]
    /\ full' = (full \/ outcome = "stop")
    /\ itemPanicked' = (itemPanicked \/ outcome = "panic")

\* send(x) with a buffer: returns Ok once there is room.
SendBuffered(w) ==
    /\ wkSt[w] = "sending"
    /\ recvLive
    /\ HasSpace(bound, buf)
    /\ buf' = Append(buf, ItemValue(wkItem[w]))
    /\ sentOk' = Append(sentOk, ItemValue(wkItem[w]))
    /\ AfterSend(w, SendOutcome(TRUE))
    /\ UNCHANGED <<params, callerPc, prodPc, unclaimed, recvLive, senderLive, got,
                   pulls, sawEOS, fResult, fPanicked, threadPanicked, retVal, panicSrc>>

\* send(x) on a rendezvous channel (bound = 0): returns Ok when a receiver
\* blocked in recv takes the item.
SendRendezvous(w) ==
    /\ wkSt[w] = "sending"
    /\ recvLive
    /\ bound = 0
    /\ callerPc = "pulling"
    /\ buf = <<>>
    /\ got' = Append(got, ItemValue(wkItem[w]))
    /\ sentOk' = Append(sentOk, ItemValue(wkItem[w]))
    /\ pulls' = pulls + 1
    /\ callerPc' = "between"
    /\ AfterSend(w, SendOutcome(TRUE))
    /\ UNCHANGED <<params, prodPc, unclaimed, buf, recvLive, senderLive, sawEOS,
                   fResult, fPanicked, threadPanicked, retVal, panicSrc>>

\* send(x) after the Receiver was dropped: returns Err; the item is dropped.
SendFail(w) ==
    /\ wkSt[w] = "sending"
    /\ ~recvLive
    /\ AfterSend(w, SendOutcome(FALSE))
    /\ UNCHANGED <<params, callerPc, prodPc, unclaimed, buf, recvLive, senderLive,
                   got, pulls, sawEOS, sentOk, fResult, fPanicked, threadPanicked,
                   retVal, panicSrc>>

Next ==
    \/ Start
    \/ ConsumerPull
    \/ RecvItem
    \/ RecvEnd
    \/ ConsumerReturn
    \/ ConsumerPanic
    \/ ScopeExit
    \/ ProducerBegin
    \/ ProducerEnd
    \/ \E w \in 1..nWorkers : WorkerClaim(w)
    \/ \E w \in 1..nWorkers : WorkerCompute(w)
    \/ \E w \in 1..nWorkers : SendBuffered(w)
    \/ \E w \in 1..nWorkers : SendRendezvous(w)
    \/ \E w \in 1..nWorkers : SendFail(w)

Spec == Init /\ [][Next]_vars

\* Threads are scheduled: a step that stays possible is eventually taken.
FairSpec == Spec /\ WF_vars(Next)

\* ---- helpers of the properties ----
Ended == callerPc \in {"returned", "panicked"}

SourceCount(v) == Cardinality({i \in Items : ItemValue(i) = v})

SeenValues == Range(got) \cup Range(buf) \cup Range(sentOk) \cup {ItemValue(i) : i \in Items}

\* A worker is blocked in send: the receiver is live and there is no room.
Blocked(w) == wkSt[w] = "sending" /\ recvLive /\ ~HasSpace(bound, buf)

\* C1: when no per-item work panics and the consumer has pulled the adapter
\* until it returned None, it has received exactly n items, and each value as
\* many times as the source produces it.
C1_FullDrainGetsAll ==
    (sawEOS /\ panicSet = {}) =>
        /\ Len(got) = n
        /\ \A v \in SeenValues : Count(got, v) = SourceCount(v)

C1_Witness ==
    /\ sawEOS /\ panicSet = {} /\ want = All
    /\ n >= 2 /\ nWorkers >= 2 /\ Len(got) = n

\* C2 (as claimed): once a consumer that pulls only k < n times has returned,
\* no engine worker is left blocked in send: with the caller waiting at the
\* join nothing would ever unblock it.
C2_EarlyStopNoBlockedSend ==
    (callerPc = "join" /\ want # All /\ want < n) =>
        \A w \in 1..nWorkers : ~Blocked(w)

\* C3: when par_bridge has returned or has finished unwinding, the bridging
\* thread has terminated and no worker still runs its closure.
C3_ProducerJoined ==
    Ended => (prodPc = "done" /\ \A w \in 1..nWorkers : wkSt[w] = "idle")

C3_Witness == callerPc = "returned" /\ full /\ Len(got) < n

\* C4: a call in which some per-item work panicked never ends by returning
\* normally: it ends by panicking.
C4_ItemPanicSurfaces ==
    (itemPanicked /\ Ended) => (callerPc = "panicked" /\ retVal = NoValue)

C4_Witness ==
    /\ callerPc = "panicked" /\ itemPanicked /\ ~fPanicked
    /\ fResult # NoValue /\ fResult # <<>>

\* C5: the channel never buffers more than `bound` items.
C5_BufferedAtMostBound == Len(buf) <= bound

C5_Witness ==
    /\ bound >= 1 /\ Len(buf) = bound
    /\ \E w \in 1..nWorkers : Blocked(w)

C7_ReturnsConsumerValue ==
    (Ended /\ panicSet = {} /\ fEnd # "panic") =>
        (callerPc = "returned" /\ panicSrc = "none" /\ retVal = fResult /\ retVal = got)

C7_Witness == callerPc = "returned" /\ full /\ retVal = got /\ Len(got) < n

\* C8: called on the only worker of an installed pool, with more items than
\* the bound and a collect-all consumer, the call returns all n items.
C8_SingleWorkerPool ==
    (callerPool = "local" /\ want = All /\ fEnd = "drop" /\ panicSet = {} /\ n > bound)
        ~> (callerPc = "returned" /\ retVal = got /\ Len(got) = n)

C8_Witness ==
    /\ callerPool = "local" /\ want = All /\ fEnd = "drop" /\ n > bound /\ n >= 2
    /\ callerPc = "returned" /\ retVal = got /\ Len(got) = n

\* C9: no value is yielded more often than the source produces it, and while
\* both channel ends are live every value sent successfully is buffered or
\* yielded, exactly as often as it was sent.
C9_ExactlyOnce ==
    /\ \A v \in SeenValues : Count(got, v) <= SourceCount(v)
    /\ (recvLive /\ senderLive) =>
            \A v \in SeenValues : Count(sentOk, v) = Count(buf, v) + Count(got, v)

C9_Witness ==
    /\ recvLive /\ senderLive /\ nWorkers >= 2
    /\ Len(sentOk) >= 2 /\ got # <<>> /\ buf # <<>>

\* C10: with bound 0 nothing is buffered and no send has returned Ok without
\* its item having been received; a full-drain call without panicking work
\* still ends with all n items received.
C10_Rendezvous ==
    /\ [](bound = 0 => (buf = <<>> /\ Len(sentOk) <= Len(got)))
    /\ ((bound = 0 /\ want = All /\ panicSet = {}) ~> (Ended /\ Len(got) = n))

C10_Witness ==
    /\ bound = 0 /\ want = All /\ nWorkers >= 2 /\ n >= 2
    /\ callerPc = "returned" /\ Len(got) = n

\* C11 (as claimed): whenever the consumer function has ended and the scope
\* waits for the bridging thread, the adapter's Receiver has been dropped.
C11_AdapterDroppedAtJoin == callerPc = "join" => ~recvLive

\* A send step of worker w: it returns Ok or Err.
SendStep(w) == SendBuffered(w) \/ SendRendezvous(w) \/ SendFail(w)

\* C12: a worker in send cannot complete exactly while the receiver is live
\* and the channel has no room (with bound 0: no receiver is waiting); no send
\* succeeds once the receiver is dropped; a send that ends then ends as a
\* failure; and after the drop eventually no worker is left in send.
C12_SendBlocksOrFails ==
    /\ [](\A w \in 1..nWorkers : wkSt[w] = "sending" =>
            ((~ENABLED SendStep(w)) <=>
                (/\ recvLive
                 /\ Len(buf) >= bound
                 /\ ~(bound = 0 /\ callerPc = "pulling"))))
    /\ [][~recvLive => sentOk' = sentOk]_vars
    /\ [][\A w \in 1..nWorkers :
            (~recvLive /\ wkSt[w] = "sending" /\ wkSt'[w] # "sending") => full']_vars
    /\ (~recvLive ~> (\A w \in 1..nWorkers : wkSt[w] # "sending"))

C12_Witness ==
    /\ ~recvLive /\ full /\ nWorkers >= 2
    /\ wkSt[1] = "idle" /\ wkSt[2] = "sending"

\* A step in which next() returns None.
EndStep == pulls' = pulls + 1 /\ got' = got

\* C13: next() returns None only when the sender has been dropped (the
\* bridging thread has ended) and nothing is buffered; hence once None was
\* returned every value sent successfully has been yielded, as often as sent.
C13_EndOnlyWhenClosed ==
    /\ [][EndStep => (~senderLive /\ prodPc = "done" /\ buf = <<>> /\ sawEOS')]_vars
    /\ [](sawEOS => \A v \in SeenValues : Count(got, v) = Count(sentOk, v))

C13_Witness == sawEOS /\ bound >= 1 /\ Len(got) >= 2 /\ got = sentOk

C15_YieldedEqualsSent == (Ended /\ ~recvLive) => Len(got) = Len(sentOk)

\* C15 (amended): when the call has ended, yielded <= sent Ok <= yielded +
\* bound; the two are equal when next() returned None or bound = 0.
C15_YieldedWithinBoundOfSent ==
    Ended =>
        /\ Len(got) <= Len(sentOk)
        /\ Len(sentOk) <= Len(got) + bound
        /\ (sawEOS \/ bound = 0) => Len(got) = Len(sentOk)

C15_Witness ==
    /\ callerPc = "returned" /\ fEnd = "drop" /\ full
    /\ Len(sentOk) = Len(got) + bound /\ bound >= 1

\* C16: par_bridge starts to panic only from the scope's join, with the
\* bridging thread ended and the consumer function ended (returned or
\* panicked); while the consumer function runs, the call does not end.
C16_PanicOnlyAtJoin ==
    /\ [][(callerPc # "panicked" /\ callerPc' = "panicked") =>
            /\ callerPc = "join"
            /\ prodPc = "done"
            /\ (fPanicked \/ fResult # NoValue)]_vars
    /\ [][(callerPc \in {"between", "pulling"}) => ~(Ended')]_vars
    /\ [](panicSrc = "scoped thread" => (fResult # NoValue /\ ~fPanicked))

C16_Witness ==
    /\ callerPc = "panicked" /\ panicSrc = "scoped thread"
    /\ fResult # NoValue /\ fResult # <<>>

\* C17: after next() has returned None no pull yields an item, and a pull
\* started then ends (with None again).
C17_StaysExhausted ==
    /\ [][sawEOS => (got' = got /\ sawEOS')]_vars
    /\ [][(sawEOS /\ callerPc = "pulling" /\ callerPc' # "pulling") => EndStep]_vars
    /\ ((sawEOS /\ callerPc = "pulling") ~> callerPc # "pulling")

C17_Witness == sawEOS /\ pulls >= Len(got) + 2

\* C18: when a per-item work has panicked, a drain-all consumer still gets
\* None and leaves its pulling loop; by then it has been yielded every value
\* sent successfully, and fewer than n items.
C18_PanicEndsDrain ==
    /\ []((want = All /\ itemPanicked /\ sawEOS) =>
            /\ Len(got) < n
            /\ \A v \in SeenValues : Count(sentOk, v) = Count(got, v))
    /\ ((want = All /\ itemPanicked)
            ~> (sawEOS /\ callerPc \in {"join", "returned", "panicked"}))

C18_Witness ==
    /\ want = All /\ itemPanicked /\ sawEOS /\ got # <<>>
    /\ callerPc = "join"

\* Items computed by the engine and not yet received.
InFlight == Len(buf) + Cardinality({w \in 1..nWorkers : wkSt[w] = "sending"})

\* C19: the items computed and not yet received number at most bound plus the
\* number of workers.
C19_InFlightAtMostBoundPlusWorkers == InFlight <= bound + nWorkers

C19_Witness == InFlight = bound + nWorkers /\ InFlight > bound /\ InFlight >= 2

====
